---- MODULE Spec2Model ----
(***************************************************************************)
(* Model of btnap.service.py (BlueZ PAN server/client orchestration).     *)
(* One run of main(): adapter resolution, power-on, then either the       *)
(* server flow (Unregister/Register per adapter, wait loop, cleanup) or   *)
(* the client flow (ConnectProfile, the two-pass Network1.Connect loop,   *)
(* optional wait loop and Disconnect).  Program positions are named after *)
(* the source lines of the statement about to be executed.                *)
(***************************************************************************)
EXTENDS Integers, Sequences, FiniteSets, TLC

\* ------------------------------------------------------------------ bounds
MaxObjs == 3        \* objects in the directory snapshot
MaxSignals == 1     \* SIGTERM / SIGINT deliveries in one run
MaxIter == 2        \* wait_iter() rounds that are observed

\* ------------------------------------------------------- strings as tuples
\* Addresses and object paths are strings in the source; they are modelled
\* as tuples of small numbers so that ==, endswith and startswith are the
\* real string operations.
hci1 == [kind |-> "adapter", path |-> <<1>>, addr |-> <<7, 1>>]
hci11 == [kind |-> "adapter", path |-> <<1, 1>>, addr |-> <<7, 2>>]
hci2 == [kind |-> "adapter", path |-> <<2>>, addr |-> <<7, 3>>]
devA == [kind |-> "device", path |-> <<1, 9, 5>>, addr |-> <<8, 5>>]
devB == [kind |-> "device", path |-> <<1, 1, 9, 5>>, addr |-> <<8, 5>>]
Universe == {hci1, hci11, hci2, devA, devB}
Patterns == {<<>>, <<7, 1>>, <<1>>, <<3>>}
RemoteAddrs == {<<8, 5>>, <<8, 6>>}

NoIface == -1       \* the local name iface is unbound
PreIface == 0       \* interface name of a connection that existed before the run

endswith(s, suf) ==
    /\ Len(suf) <= Len(s)
    /\ \A k \in 1..Len(suf) : s[Len(s) - Len(suf) + k] = suf[k]

startswith(s, pre) ==
    /\ Len(pre) <= Len(s)
    /\ \A k \in 1..Len(pre) : s[k] = pre[k]

\* find_adapter_in_objects: the adapters the generator yields, in directory
\* order; exhausting it with nothing yielded raises BTError.
find_adapter_in_objects(objs, pattern) ==
    LET Match(o) == /\ o.kind = "adapter"
                    /\ \/ pattern = <<>>
                       \/ pattern = o.addr
                       \/ endswith(o.path, pattern)
    IN SelectSeq(objs, Match)

\* find_device_in_objects without the address comparison of line 76
find_device_in_objects_AnyAddr(objs, device_address, adapter) ==
    LET Match(o) == /\ o.kind = "device"
                    /\ startswith(o.path, adapter.path)
    IN SelectSeq(objs, Match)

\* find_device_in_objects: the devices that pass the test of line 76, in
\* directory order; the first is returned, none raises BTError.
find_device_in_objects(objs, device_address, adapter) ==
    LET Match(o) == /\ o.kind = "device"
                    /\ o.addr = device_address
                    /\ startswith(o.path, adapter.path)
    IN SelectSeq(objs, Match)

RECURSIVE Perms(_, _)
Perms(S, len) ==
    IF len = 0 THEN {<<>>}
    ELSE UNION {{<<x>> \o p : p \in Perms(S \ {x}, len - 1)} : x \in S}

Directories == UNION {Perms(Universe, len) : len \in 0..MaxObjs}

VARIABLES
    opts,        \* parsed command line (line 121)
    objects,     \* the directory GetManagedObjects returned to a lookup that
                 \* found nothing (a lookup that succeeds drops its snapshot)
    pc,          \* position in main()
    devs,        \* line 128-133: the selected local adapters
    i,           \* index of the for loops over devs / servers
    servers,     \* line 179: adapters registered by this run
    dev_remote,  \* line 197
    n,           \* line 204: passes of "for n in range(2)" started so far
    iface,       \* line 205: the name Connect returned (NoIface: unbound)
    pending,     \* exception being propagated through a finally block
    outcome,     \* how the process ended ("running" while it has not)
    handler,     \* line 159: SIGTERM handler installed
    calls,       \* service calls issued so far, in order: the method, the
                 \* object, the position of the caller, the result ("inflight"
                 \* while the call has not returned) and whether the uuid was
                 \* registered on the object when the call was made
    err,         \* line 206: the exception the except clause is handling
    connected,   \* line 208: the value read from the Connected property
    registered,  \* service state: adapters (paths) holding the uuid
    powered,     \* service state: adapters (paths) with Powered = True
    net,         \* service state: Network1 Connected / Interface of the device
    sigs,        \* signals delivered so far: which one, at which position,
                 \* whether the handler of line 159 was installed, and how
                 \* many service calls had been issued
    iters,       \* wait_iter() rounds so far
    wd,          \* line 148: WATCHDOG_PID / WATCHDOG_USEC as read from the environment
    sd_ready,    \* wait_iter.sd_ready
    sd_wdt,      \* wait_iter.sd_wdt
    timeout,     \* wait_iter.timeout, in seconds
    notes,       \* what wait_iter() has done so far: notifications and sleeps
    wpos,        \* position inside wait_iter(): "enter", "sleep", "wake"
    brctl        \* lines 163-167: exit status and stderr of brctl

vars == <<opts, objects, pc, devs, i, servers, dev_remote, n, iface, pending,
          outcome, handler, calls, err, connected, registered, powered, net,
          sigs, iters, wd, sd_ready, sd_wdt, timeout, notes, wpos, brctl>>

\* the state of wait_iter (lines 138-158)
sd == <<wd, sd_ready, sd_wdt, timeout, notes, wpos>>

NoDev == [kind |-> "none", path |-> <<>>, addr |-> <<>>]

\* line 138
wait_iter_noop == 3600

\* brctl has not been run
NoBrctl == [status |-> -1, stderr |-> ""]

\* the environment before line 148 has read it
NoWd == [pid |-> "unread", usec |-> -1]

Opts ==
    {o \in [call : {"server", "client"}, device : Patterns, device_all : BOOLEAN,
            remote_addr : RemoteAddrs, wait : BOOLEAN, systemd : BOOLEAN,
            if_not_connected : BOOLEAN, reconnect : BOOLEAN] :
        \* the client flags exist only on the client sub-parser (lines 112-119)
        /\ o.call = "server" =>
              /\ ~o.wait /\ ~o.if_not_connected /\ ~o.reconnect
              /\ o.remote_addr = <<8, 5>>
        \* --device-all is "mutually exclusive with --device" (lines 92-93)
        /\ o.device_all => o.device = <<>>}

Init ==
    /\ opts \in Opts
    /\ objects = <<>>
    /\ pc = "L128"
    /\ devs = <<>>
    /\ i = 1
    /\ servers = <<>>
    /\ dev_remote = NoDev
    /\ n = 0
    /\ iface = NoIface
    /\ pending = "none"
    /\ outcome = "running"
    /\ handler = FALSE
    /\ calls = <<>>
    /\ err = "none"
    /\ connected = FALSE
    \* registrations survive a previous run (comment of line 183); only the
    \* server flow touches them, only the client flow touches the network
    /\ registered \in IF opts.call = "server"
                      THEN SUBSET {hci1.path, hci11.path}
                      ELSE {{}}
    /\ powered = {}
    /\ net \in IF opts.call = "client"
               THEN {[connected |-> FALSE, iface |-> NoIface],
                     [connected |-> TRUE, iface |-> PreIface]}
               ELSE {[connected |-> FALSE, iface |-> NoIface]}
    /\ sigs = <<>>
    /\ iters = 0
    /\ wd = NoWd
    /\ sd_ready = FALSE
    /\ sd_wdt = FALSE
    /\ timeout = wait_iter_noop
    /\ notes = <<>>
    /\ wpos = "enter"
    /\ brctl = NoBrctl

\* ------------------------------------------------------------ bookkeeping
Log(op, tgt, res) ==
    calls' = Append(calls, [op |-> op, tgt |-> tgt, res |-> res, at |-> pc,
                            pre |-> tgt \in registered])

Running == outcome = "running"

\* positions inside the try block of lines 180-188
ServerTry == {"L181", "L183", "L184", "L185", "L188"}

\* the except clauses without the bare "except: pass" of line 201
Catches_NoBare(at, e) ==
    CASE at \in ServerTry -> e = "KeyboardInterrupt"
      [] at = "L223" -> e = "KeyboardInterrupt"
      [] OTHER -> FALSE

\* The except clauses: which exception the handler around a position
\* catches and drops.
\*   line 189: except KeyboardInterrupt: pass
\*   line 201: except: pass
\*   line 224: except KeyboardInterrupt: pass
Catches(at, e) ==
    CASE at \in ServerTry -> e = "KeyboardInterrupt"
      [] at = "L200" -> TRUE
      [] at = "L223" -> e = "KeyboardInterrupt"
      [] OTHER -> FALSE

\* Where an exception raised at the current position lands: in the finally
\* block of the enclosing try (lines 190, 225), after a handler that caught
\* it (line 201), or outside main(), which ends the process.
Raise(e) ==
    IF pc \in ServerTry
    THEN /\ pc' = "L191"
         /\ pending' = IF Catches(pc, e) THEN "none" ELSE e
         /\ i' = 1
         /\ outcome' = outcome
    ELSE IF pc = "L223"
    THEN /\ pc' = "L226"
         /\ pending' = IF Catches(pc, e) THEN "none" ELSE e
         /\ UNCHANGED <<i, outcome>>
    ELSE IF Catches(pc, e)
    THEN /\ pc' = "L204"
         /\ UNCHANGED <<pending, i, outcome>>
    ELSE /\ pc' = "done"
         /\ outcome' = e
         /\ pending' = "none"
         /\ i' = i

Goto(l) == pc' = l /\ UNCHANGED <<pending, outcome>>

\* ------------------------------------------------- lines 128-136: adapters
\* line 128 / 130-132; find_adapter fetches the directory (line 50) and
\* drops it when it returns
FindAdapters ==
    /\ Running /\ pc = "L128"
    /\ UNCHANGED <<sd, brctl, opts, servers, dev_remote, n, iface, handler,
                   err, connected, registered, powered, net, sigs, iters>>
    /\ IF opts.device_all /\ opts.call # "server"
       THEN \* parser.error(): usage message, exit status 2
            /\ pc' = "done" /\ outcome' = "usage"
            /\ UNCHANGED <<objects, devs, i, pending, calls>>
       ELSE \/ /\ Log("GetManagedObjects", <<>>, "Other")
               /\ Raise("DBusException")
               /\ UNCHANGED <<objects, devs>>
            \/ \E objs \in Directories :
               /\ Log("GetManagedObjects", <<>>, "ok")
               /\ LET found == find_adapter_in_objects(objs,
                                    IF opts.device_all THEN <<>> ELSE opts.device)
                  IN IF found = <<>>
                     THEN Raise("BTError") /\ devs' = devs /\ objects' = objs
                     ELSE /\ devs' = IF opts.device_all THEN found
                                     ELSE <<Head(found)>>
                          /\ objects' = <<>>
                          /\ i' = 1
                          /\ Goto("L133")

\* line 133: prop_get(dev, 'Address') for each selected adapter
GetAddress ==
    /\ Running /\ pc = "L133"
    /\ UNCHANGED <<sd, brctl, opts, objects, devs, servers, dev_remote, n, iface, handler,
                   err, connected, registered, powered, net, sigs, iters>>
    /\ \E ok \in BOOLEAN :
        /\ Log("Get.Address", devs[i].path, IF ok THEN "ok" ELSE "Other")
        /\ IF ~ok THEN Raise("DBusException")
           ELSE IF i < Len(devs) THEN i' = i + 1 /\ Goto("L133")
           ELSE i' = 1 /\ Goto("L135")

\* line 135: prop_set(dev, 'Powered', True) for each selected adapter
PowerOn ==
    /\ Running /\ pc = "L135"
    /\ UNCHANGED <<sd, brctl, opts, objects, devs, servers, dev_remote, n, iface, handler,
                   err, connected, registered, net, sigs, iters>>
    /\ \E ok \in BOOLEAN :
        /\ Log("Set.Powered", devs[i].path, IF ok THEN "ok" ELSE "Other")
        /\ IF ~ok THEN Raise("DBusException") /\ powered' = powered
           ELSE /\ powered' = powered \cup {devs[i].path}
                /\ IF i < Len(devs) THEN i' = i + 1 /\ Goto("L135")
                   ELSE i' = 1 /\ Goto("L138")

\* ------------------------------------------- lines 138-158: wait_iter
\* WATCHDOG_PID is absent, the id of another process, or os.getpid();
\* WATCHDOG_USEC is absent (-1) or a number, here in units of 10^6 us so
\* that "/ 2e6" is a halving.  The interval is only looked at when the pid
\* matches, so the other two cases come with one value each.
WdEnv ==
    {[pid |-> "absent", usec |-> -1], [pid |-> "other", usec |-> 20]}
    \cup {[pid |-> "self", usec |-> u] : u \in {-1, 0, 20, 10000}}

\* line 149 without the comparison with os.getpid()
PidMatches_AnyPid(pid) == pid # "absent"

\* line 149: wd_pid and wd_pid.isdigit() and int(wd_pid) == os.getpid()
PidMatches(pid) == pid = "self"

\* lines 149-152: wd_interval (0 stands for None), or the exception raised
\* by float(None) / by the assert of line 151
WdInterval(env) ==
    IF ~PidMatches(env.pid) THEN [exc |-> "none", interval |-> 0]
    ELSE IF env.usec = -1 THEN [exc |-> "TypeError", interval |-> 0]
    ELSE IF ~(env.usec \div 2 > 0) THEN [exc |-> "AssertionError", interval |-> 0]
    ELSE [exc |-> "none", interval |-> env.usec \div 2]

Min(a, b) == IF a <= b THEN a ELSE b

\* lines 138-158: build wait_iter
SetupWaitIter ==
    /\ Running /\ pc = "L138"
    /\ UNCHANGED <<brctl, opts, objects, devs, servers, dev_remote, n, iface,
                   handler, calls, err, connected, registered, powered, net,
                   sigs, iters, notes, wpos>>
    /\ IF ~opts.systemd
       THEN \* line 158: wait_iter = lambda: time.sleep(wait_iter_noop)
            /\ UNCHANGED <<wd, sd_ready, sd_wdt, timeout>>
            /\ i' = i /\ Goto("L159")
       ELSE \E env \in WdEnv :
            /\ wd' = env
            /\ LET w == WdInterval(env)
               IN IF w.exc # "none"
                  THEN Raise(w.exc) /\ UNCHANGED <<sd_ready, sd_wdt, timeout>>
                  ELSE /\ sd_wdt' = (w.interval # 0)               \* lines 153-156
                       /\ timeout' = IF w.interval # 0
                                     THEN Min(w.interval, wait_iter_noop)
                                     ELSE wait_iter_noop
                       /\ sd_ready' = FALSE                        \* line 157
                       /\ i' = i /\ Goto("L159")

\* line 159: signal.signal(SIGTERM, lambda: sys.exit(0))
InstallHandler ==
    /\ Running /\ pc = "L159"
    /\ handler' = TRUE
    /\ Goto("L162")
    /\ UNCHANGED <<sd, brctl, opts, objects, devs, i, servers, dev_remote, n, iface,
                   calls, err, connected, registered, powered, net, sigs, iters>>

\* ------------------------------------------------ lines 162-193: server
\* line 162 / 196: dispatch on opts.call
Dispatch ==
    /\ Running /\ pc = "L162"
    /\ Goto(IF opts.call = "server" THEN "L163" ELSE "L197")
    /\ UNCHANGED <<sd, brctl, opts, objects, devs, i, servers, dev_remote, n, iface, handler,
                   calls, err, connected, registered, powered, net, sigs, iters>>

\* line 167 looking at the exit status only
BrctlFailed_StatusOnly(status, stderr) == status # 0

\* line 167: if brctl.wait() or brctl_stderr
BrctlFailed(status, stderr) == status # 0 \/ stderr # ""

\* lines 163-179: brctl show <iface>; failure prints the remediation text
\* and returns 1
BrctlCheck ==
    /\ Running /\ pc = "L163"
    /\ UNCHANGED <<sd, opts, objects, devs, dev_remote, n, iface, handler, pending,
                   calls, err, connected, registered, powered, net, sigs, iters>>
    /\ \E status \in {0, 1}, stderr \in {"", "No such device"} :
        /\ brctl' = [status |-> status, stderr |-> stderr]
        /\ IF BrctlFailed(status, stderr)
           THEN pc' = "done" /\ outcome' = "return1" /\ UNCHANGED <<servers, i>>
           ELSE pc' = "L181" /\ servers' = <<>> /\ i' = 1 /\ outcome' = outcome

\* the loop body without the Unregister of line 183
ServerLoopNext_NoUnregister(at) ==
    CASE at = "L181" -> "L184"
      [] at = "L183" -> "L184"
      [] at = "L184" -> "L185"
      [] at = "L185" -> "L181"

\* the order of the statements of the loop body, lines 181-187
ServerLoopNext(at) ==
    CASE at = "L181" -> "L183"
      [] at = "L183" -> "L184"
      [] at = "L184" -> "L185"
      [] at = "L185" -> "L181"

\* NetworkServer1.Unregister as the service performs it
SvcUnregister(reg, a, ok) == IF ok THEN reg \ {a} ELSE reg

\* NetworkServer1.Register: a uuid that is still registered is refused
SvcRegisterResults(reg, a) == IF a \in reg THEN {"AlreadyExists"} ELSE {"ok", "Other"}

\* line 181: for dev_addr, dev in devs.items()
ServerLoopHead ==
    /\ Running /\ pc = "L181"
    /\ Goto(IF i <= Len(devs) THEN ServerLoopNext("L181") ELSE "L188")
    /\ UNCHANGED <<sd, brctl, opts, objects, devs, i, servers, dev_remote, n, iface, handler,
                   calls, err, connected, registered, powered, net, sigs, iters>>

\* line 183: server.Unregister(opts.uuid) # in case already registered
ServerUnregister ==
    /\ Running /\ pc = "L183"
    /\ UNCHANGED <<sd, brctl, opts, objects, devs, servers, dev_remote, n, iface, handler,
                   err, connected, powered, net, sigs, iters>>
    /\ \E ok \in BOOLEAN :
        /\ Log("Unregister", devs[i].path, IF ok THEN "ok" ELSE "Other")
        /\ registered' = SvcUnregister(registered, devs[i].path, ok)
        /\ IF ok THEN Goto(ServerLoopNext("L183")) /\ i' = i
           ELSE Raise("DBusException")

\* line 184: server.Register(opts.uuid, opts.iface_name)
ServerRegister ==
    /\ Running /\ pc = "L184"
    /\ UNCHANGED <<sd, brctl, opts, objects, devs, servers, dev_remote, n, iface, handler,
                   err, connected, powered, net, sigs, iters>>
    /\ \E res \in SvcRegisterResults(registered, devs[i].path) :
        /\ Log("Register", devs[i].path, res)
        /\ IF res = "ok"
           THEN /\ registered' = registered \cup {devs[i].path}
                /\ Goto(ServerLoopNext("L184")) /\ i' = i
           ELSE registered' = registered /\ Raise("DBusException")

\* line 185: servers.append(server)
ServerAppend ==
    /\ Running /\ pc = "L185"
    /\ servers' = Append(servers, devs[i])
    /\ i' = i + 1
    /\ Goto(ServerLoopNext("L185"))
    /\ UNCHANGED <<sd, brctl, opts, objects, devs, dev_remote, n, iface, handler,
                   calls, err, connected, registered, powered, net, sigs, iters>>

WaitCommon ==
    /\ Running /\ pc \in {"L188", "L223"}
    /\ UNCHANGED <<brctl, opts, objects, pc, devs, i, servers, dev_remote, n, iface,
                   pending, outcome, handler, calls, err, connected, registered,
                   powered, net, sigs, wd, sd_wdt, timeout>>

\* line 142 with the test of sd_ready left out
NeedReady_Always(systemd, ready) == systemd

\* line 142: if not wait_iter.sd_ready (only the systemd wait_iter has it)
NeedReady(systemd, ready) == systemd /\ ~ready

\* line 147 pinging whenever systemd is in use
NeedPing_Systemd(systemd, wdt) == systemd

\* line 147: if wait_iter.sd_wdt
NeedPing(systemd, wdt) == systemd /\ wdt

\* lines 188 / 223, 142-145: wait_iter() is called; the first call of the
\* systemd variant notifies READY=1 and STATUS=...
WaitEnter ==
    /\ WaitCommon /\ wpos = "enter"
    /\ iters < MaxIter
    /\ IF NeedReady(opts.systemd, sd_ready)
       THEN notes' = notes \o <<"READY", "STATUS">> /\ sd_ready' = TRUE
       ELSE UNCHANGED <<notes, sd_ready>>
    /\ wpos' = "sleep"
    /\ iters' = iters

\* line 146 / 158: time.sleep() has run its time
WaitSleep ==
    /\ WaitCommon /\ wpos = "sleep"
    /\ notes' = Append(notes, "sleep")
    /\ wpos' = "wake"
    /\ UNCHANGED <<sd_ready, iters>>

\* line 147: the watchdog ping, and wait_iter() returns
WaitWake ==
    /\ WaitCommon /\ wpos = "wake"
    /\ notes' = IF NeedPing(opts.systemd, sd_wdt) THEN Append(notes, "WATCHDOG")
                ELSE notes
    /\ wpos' = "enter"
    /\ iters' = iters + 1
    /\ sd_ready' = sd_ready

\* line 191: if servers:
ServerFinally ==
    /\ Running /\ pc = "L191"
    /\ i' = 1
    /\ Goto(IF servers # <<>> THEN "L192" ELSE "L193")
    /\ UNCHANGED <<sd, brctl, opts, objects, devs, servers, dev_remote, n, iface, handler,
                   calls, err, connected, registered, powered, net, sigs, iters>>

\* line 192: for server in servers: server.Unregister(opts.uuid)
CleanupUnregister ==
    /\ Running /\ pc = "L192"
    /\ UNCHANGED <<sd, brctl, opts, objects, devs, servers, dev_remote, n, iface, handler,
                   err, connected, powered, net, sigs, iters>>
    /\ \E ok \in BOOLEAN :
        /\ Log("Unregister", servers[i].path, IF ok THEN "ok" ELSE "Other")
        /\ registered' = SvcUnregister(registered, servers[i].path, ok)
        /\ IF ~ok THEN Raise("DBusException")
           ELSE IF i < Len(servers) THEN i' = i + 1 /\ Goto("L192")
           ELSE i' = i /\ Goto("L193")

\* end of a finally block (line 193 / 227): a pending exception goes on
EndFinally ==
    /\ Running /\ pc \in {"L193", "L227"}
    /\ IF pending # "none"
       THEN pc' = "done" /\ outcome' = pending /\ pending' = "none"
       ELSE Goto("L231")
    /\ UNCHANGED <<sd, brctl, opts, objects, devs, i, servers, dev_remote, n, iface, handler,
                   calls, err, connected, registered, powered, net, sigs, iters>>

\* line 231: log.debug('Finished'); main() returns None
Finished ==
    /\ Running /\ pc = "L231"
    /\ pc' = "done" /\ outcome' = "exit0" /\ pending' = pending
    /\ UNCHANGED <<sd, brctl, opts, objects, devs, i, servers, dev_remote, n, iface, handler,
                   calls, err, connected, registered, powered, net, sigs, iters>>

\* ------------------------------------------------ lines 196-227: client
Count(op) == Cardinality({k \in 1..Len(calls) : calls[k].op = op})

\* line 197: dev_remote = find_device(opts.remote_addr, list(devs.values())[0]);
\* find_device fetches the directory again (line 64)
FindDevice ==
    /\ Running /\ pc = "L197"
    /\ UNCHANGED <<sd, brctl, opts, devs, servers, n, iface, handler,
                   err, connected, registered, powered, net, sigs, iters>>
    /\ \/ /\ Log("GetManagedObjects", <<>>, "Other")
          /\ Raise("DBusException")
          /\ UNCHANGED <<objects, dev_remote>>
       \/ \E objs \in Directories :
          /\ Log("GetManagedObjects", <<>>, "ok")
          /\ LET found == find_device_in_objects(objs, opts.remote_addr, devs[1])
             IN IF found = <<>>
                THEN Raise("BTError") /\ dev_remote' = dev_remote /\ objects' = objs
                ELSE /\ dev_remote' = Head(found) /\ objects' = <<>>
                     /\ i' = i /\ Goto("L199")

\* lines 198-199: log.debug(..., prop_get(dev_remote, 'Address'), ...)
LogRemote ==
    /\ Running /\ pc = "L199"
    /\ UNCHANGED <<sd, brctl, opts, objects, devs, servers, dev_remote, n, iface, handler,
                   err, connected, registered, powered, net, sigs, iters>>
    /\ \E ok \in BOOLEAN :
        /\ Log("Get.Address", dev_remote.path, IF ok THEN "ok" ELSE "Other")
        /\ IF ok THEN i' = i /\ Goto("L200") ELSE Raise("DBusException")

\* lines 200-201: try: dev_remote.ConnectProfile(opts.uuid) / except: pass
ConnectProfile ==
    /\ Running /\ pc = "L200"
    /\ UNCHANGED <<sd, brctl, opts, objects, devs, servers, dev_remote, n, iface, handler,
                   err, connected, registered, powered, net, sigs, iters>>
    /\ \E ok \in BOOLEAN :
        /\ Log("ConnectProfile", dev_remote.path, IF ok THEN "ok" ELSE "Other")
        /\ IF ok THEN i' = i /\ Goto("L204") ELSE Raise("DBusException")

\* one pass more than line 204 makes
range_n_3 == 2 + 1

\* line 204: for n in range(2)
range_n == 2

\* lines 203-204: the loop header; a for loop that runs out falls to line 217
ConnectLoopHead ==
    /\ Running /\ pc = "L204"
    /\ IF n < range_n THEN n' = n + 1 /\ Goto("L205")
       ELSE n' = n /\ Goto("L217")
    /\ UNCHANGED <<sd, brctl, opts, objects, devs, i, servers, dev_remote, iface, handler,
                   calls, err, connected, registered, powered, net, sigs, iters>>

\* line 205: net.Connect(opts.uuid) is sent
ConnectCall ==
    /\ Running /\ pc = "L205"
    /\ Log("Connect", dev_remote.path, "inflight")
    /\ Goto("L205r")
    /\ UNCHANGED <<sd, brctl, opts, objects, devs, i, servers, dev_remote, n, iface, handler,
                   err, connected, registered, powered, net, sigs, iters>>

\* lines 205-206, 216: the reply of net.Connect; the name it returns is
\* modelled as the number of the Connect call that returned it
ConnectReturn ==
    /\ Running /\ pc = "L205r"
    /\ UNCHANGED <<sd, brctl, opts, objects, devs, i, servers, dev_remote, n, handler,
                   connected, registered, powered, sigs, iters>>
    /\ \E res \in {"ok", "Failed", "Other"} :
        /\ calls' = [calls EXCEPT ![Len(calls)].res = res]
        /\ IF res = "ok"
           THEN /\ iface' = Count("Connect")
                /\ net' = [connected |-> TRUE, iface |-> Count("Connect")]
                /\ err' = err
                /\ Goto("L217")                        \* else: break
           ELSE /\ UNCHANGED <<iface, net>>
                /\ err' = IF res = "Failed" THEN "DBus:Connect:Failed"
                                            ELSE "DBus:Connect:Other"
                /\ Goto("L207")

\* line 207 without the test of the error name
ConnectErrorNext_AnyName(e) == "L208"

\* line 207: if err.get_dbus_name() != 'org.bluez.Error.Failed': raise
ConnectErrorNext(e) == IF e # "DBus:Connect:Failed" THEN "raise" ELSE "L208"

ExceptName ==
    /\ Running /\ pc = "L207"
    /\ IF ConnectErrorNext(err) = "raise" THEN Raise(err)
       ELSE i' = i /\ Goto(ConnectErrorNext(err))
    /\ UNCHANGED <<sd, brctl, opts, objects, devs, servers, dev_remote, n, iface, handler,
                   calls, err, connected, registered, powered, net, sigs, iters>>

\* line 208: connected = prop_get(net, 'Connected')
GetConnected ==
    /\ Running /\ pc = "L208"
    /\ UNCHANGED <<sd, brctl, opts, objects, devs, servers, dev_remote, n, iface, handler,
                   err, registered, powered, net, sigs, iters>>
    /\ \E ok \in BOOLEAN :
        /\ Log("Get.Connected", dev_remote.path,
               IF ~ok THEN "Other" ELSE IF net.connected THEN "True" ELSE "False")
        /\ IF ~ok THEN Raise("DBusException") /\ connected' = connected
           ELSE connected' = net.connected /\ i' = i /\ Goto("L209")

\* lines 209-215 with the Disconnect of lines 211-213 left out
ExceptNext_NoDisconnect(conn, reconnect, if_not_connected) ==
    IF ~conn THEN "raise"
    ELSE IF reconnect THEN "L204"
    ELSE IF ~if_not_connected THEN "raise"
    ELSE "L204"

\* lines 209-215 with the raise of line 215 left out
ExceptNext_NoDefaultRaise(conn, reconnect, if_not_connected) ==
    IF ~conn THEN "raise"
    ELSE IF reconnect THEN "L212"
    ELSE "L204"

\* lines 209-215: what the except clause does once Connected has been read:
\* raise, go on to the reconnect of lines 211-214, or fall off the end of
\* the clause into the next pass of the loop
ExceptNext(conn, reconnect, if_not_connected) ==
    IF ~conn THEN "raise"
    ELSE IF reconnect THEN "L212"
    ELSE IF ~if_not_connected THEN "raise"
    ELSE "L204"

ExceptBranch ==
    /\ Running /\ pc = "L209"
    /\ LET nxt == ExceptNext(connected, opts.reconnect, opts.if_not_connected)
       IN IF nxt = "raise" THEN Raise(err) ELSE i' = i /\ Goto(nxt)
    /\ UNCHANGED <<sd, brctl, opts, objects, devs, servers, dev_remote, n, iface, handler,
                   calls, err, connected, registered, powered, net, sigs, iters>>

\* lines 211-212: log.debug(..., prop_get(net, 'Interface'))
GetInterface ==
    /\ Running /\ pc = "L212"
    /\ UNCHANGED <<sd, brctl, opts, objects, devs, servers, dev_remote, n, iface, handler,
                   err, connected, registered, powered, net, sigs, iters>>
    /\ \E ok \in BOOLEAN :
        /\ Log("Get.Interface", dev_remote.path, IF ok THEN "ok" ELSE "Other")
        /\ IF ok THEN i' = i /\ Goto("L213") ELSE Raise("DBusException")

\* lines 213-214: net.Disconnect(); continue
Reconnect ==
    /\ Running /\ pc = "L213"
    /\ UNCHANGED <<sd, brctl, opts, objects, devs, servers, dev_remote, n, iface, handler,
                   err, connected, registered, powered, sigs, iters>>
    /\ \E ok \in BOOLEAN :
        /\ Log("Disconnect", dev_remote.path, IF ok THEN "ok" ELSE "Other")
        /\ IF ok THEN /\ net' = [connected |-> FALSE, iface |-> NoIface]
                      /\ i' = i /\ Goto("L204")
           ELSE net' = net /\ Raise("DBusException")

\* line 219 if a name that was never assigned could be read
LoadIface_Unchecked(v) == "ok"

\* line 219: reading the local name iface
LoadIface(v) == IF v = NoIface THEN "UnboundLocalError" ELSE "ok"

\* lines 217-219: log.debug(..., prop_get(dev_remote, 'Address'), opts.uuid,
\* iface): the arguments are evaluated left to right, the unbound name last
LogConnected ==
    /\ Running /\ pc = "L217"
    /\ UNCHANGED <<sd, brctl, opts, objects, devs, servers, dev_remote, n, iface, handler,
                   err, connected, registered, powered, net, sigs, iters>>
    /\ \E ok \in BOOLEAN :
        /\ Log("Get.Address", dev_remote.path, IF ok THEN "ok" ELSE "Other")
        /\ IF ~ok THEN Raise("DBusException")
           ELSE IF LoadIface(iface) # "ok" THEN Raise(LoadIface(iface))
           ELSE i' = i /\ Goto("L221")

\* line 221 entering the wait loop whatever the flag
WaitNext_Always(wait) == "L223"

\* line 221: if opts.wait
WaitNext(wait) == IF wait THEN "L223" ELSE "L231"

WaitOrFinish ==
    /\ Running /\ pc = "L221"
    /\ Goto(WaitNext(opts.wait))
    /\ UNCHANGED <<sd, brctl, opts, objects, devs, i, servers, dev_remote, n, iface, handler,
                   calls, err, connected, registered, powered, net, sigs, iters>>

\* line 226: finally: net.Disconnect()
FinalDisconnect ==
    /\ Running /\ pc = "L226"
    /\ UNCHANGED <<sd, brctl, opts, objects, devs, servers, dev_remote, n, iface, handler,
                   err, connected, registered, powered, sigs, iters>>
    /\ \E ok \in BOOLEAN :
        /\ Log("Disconnect", dev_remote.path, IF ok THEN "ok" ELSE "Other")
        /\ IF ok THEN /\ net' = [connected |-> FALSE, iface |-> NoIface]
                      /\ i' = i /\ Goto("L227")
           ELSE net' = net /\ Raise("DBusException")

\* --------------------------------------------------------------- signals
\* A signal is handled between two statements, never inside a service call
\* that has not returned.  SIGINT raises KeyboardInterrupt; SIGTERM ends the
\* process until line 159 has run and raises SystemExit (sys.exit(0)) after.
\* Inside the try of line 200 the handler runs either before ConnectProfile
\* was sent or right after it returned.
Signal ==
    /\ Running /\ pc \notin {"done", "L205r"}
    /\ Len(sigs) < MaxSignals
    /\ UNCHANGED <<sd, brctl, opts, objects, devs, servers, dev_remote, n, iface, handler,
                   err, connected, registered, powered, net, iters>>
    /\ \E sig \in {"SIGTERM", "SIGINT"} :
        /\ IF sig = "SIGTERM" /\ ~handler
           THEN pc' = "done" /\ outcome' = "killed" /\ UNCHANGED <<pending, i, calls>>
           ELSE /\ Raise(IF sig = "SIGTERM" THEN "SystemExit" ELSE "KeyboardInterrupt")
                /\ \/ calls' = calls
                   \/ /\ pc = "L200"
                      /\ \E ok \in BOOLEAN :
                           Log("ConnectProfile", dev_remote.path,
                               IF ok THEN "ok" ELSE "Other")
        /\ sigs' = Append(sigs, [sig |-> sig, at |-> pc, handled |-> handler,
                                 ncalls |-> Len(calls')])

Next ==
    \/ FindAdapters \/ GetAddress \/ PowerOn \/ SetupWaitIter
    \/ InstallHandler \/ Dispatch
    \/ BrctlCheck \/ ServerLoopHead \/ ServerUnregister \/ ServerRegister
    \/ ServerAppend \/ WaitEnter \/ WaitSleep \/ WaitWake \/ ServerFinally \/ CleanupUnregister
    \/ EndFinally \/ Finished
    \/ FindDevice \/ LogRemote \/ ConnectProfile \/ ConnectLoopHead
    \/ ConnectCall \/ ConnectReturn \/ ExceptName \/ GetConnected
    \/ ExceptBranch \/ GetInterface
    \/ Reconnect \/ LogConnected \/ WaitOrFinish \/ FinalDisconnect
    \/ Signal

Spec == Init /\ [][Next]_vars

TypeOK ==
    /\ pc \in {"L128", "L133", "L135", "L138", "L159", "L162", "L163", "L181", "L183",
               "L184", "L185", "L188", "L191", "L192", "L193", "L197", "L199",
               "L200", "L204", "L205", "L205r", "L207", "L208", "L209", "L212", "L213", "L217",
               "L221", "L223", "L226", "L227", "L231", "done"}
    /\ n \in 0..range_n
    /\ iface \in {NoIface} \cup 1..range_n
    /\ Len(sigs) <= MaxSignals
    /\ iters \in 0..MaxIter
    /\ (outcome = "running") = (pc # "done")
    /\ wpos \in {"enter", "sleep", "wake"}
    /\ timeout \in 1..wait_iter_noop
    /\ (sd_wdt \/ sd_ready) => opts.systemd

\* =================================================================== claims
Idx(op) == {k \in 1..Len(calls) : calls[k].op = op}

Returned(k) == calls[k].res # "inflight"

\* the position in calls of the m-th Network1.Connect (0: there is none)
ConnectAt(m) ==
    IF Cardinality(Idx("Connect")) < m THEN 0
    ELSE CHOOSE k \in Idx("Connect") :
            Cardinality({j \in Idx("Connect") : j <= k}) = m

\* Connect number m failed with org.bluez.Error.Failed and the read of the
\* Connected property that follows it returned True
GenericWhileConnected(m) ==
    LET k == ConnectAt(m)
    IN /\ k # 0 /\ k < Len(calls)
       /\ calls[k].res = "Failed"
       /\ calls[k + 1].op = "Get.Connected" /\ calls[k + 1].res = "True"

SignalAt(l) == \E k \in 1..Len(sigs) : sigs[k].at = l

\* C1: in the client role at most 2 Network1.Connect calls are issued in a
\* run, whatever the flags and the results of the service calls, and a call
\* that has not returned is the last call issued: nothing, and no second
\* Connect in particular, is sent before it returns.
C1_BoundedSerialConnect ==
    /\ Cardinality(Idx("Connect")) <= 2
    /\ \A k \in 1..Len(calls) :
          ~Returned(k) => k = Len(calls) /\ calls[k].op = "Connect" /\ pc = "L205r"

C1_Witness ==
    /\ Cardinality(Idx("Connect")) = 2
    /\ \A k \in Idx("Connect") : Returned(k)
    /\ pc = "done"

\* C2 as the spec states it: with reconnect set, after a first Connect that
\* failed generically while Connected read True, a run that issued the retry
\* and ended without a signal has issued exactly one Disconnect before the
\* retry and holds the interface name the retry returned.
C2_Original ==
    (/\ opts.reconnect /\ GenericWhileConnected(1)
     /\ ConnectAt(2) # 0 /\ pc = "done" /\ sigs = <<>>)
    => /\ Cardinality({k \in Idx("Disconnect") : k < ConnectAt(2)}) = 1
       /\ iface = 2

\* C2 amended: with reconnect set, after a first Connect that failed
\* generically while Connected read True, exactly one Disconnect (a
\* successful one) has been issued when the retry is issued; if the retry
\* returns a name the run holds that name, and if the retry fails the run
\* never holds a name.
C2_ReconnectOnce ==
    (opts.reconnect /\ GenericWhileConnected(1) /\ ConnectAt(2) # 0)
    => /\ Cardinality({k \in Idx("Disconnect") : k < ConnectAt(2)}) = 1
       /\ \A k \in Idx("Disconnect") :
             k < ConnectAt(2) => k > ConnectAt(1) /\ calls[k].res = "ok"
       /\ calls[ConnectAt(2)].res = "ok" => iface = 2
       /\ calls[ConnectAt(2)].res \in {"Failed", "Other"} => iface = NoIface

C2_Witness ==
    /\ opts.reconnect /\ GenericWhileConnected(1)
    /\ ConnectAt(2) # 0 /\ calls[ConnectAt(2)].res = "ok"
    /\ iface = 2 /\ pc = "L221"

\* C3 as the spec states it: with if-not-connected set and reconnect not
\* set, when every Connect of the run failed generically while Connected
\* read True and no other call failed, the run ends without a Disconnect,
\* normally, holding the interface name of the pre-existing connection.
C3_Claim ==
    (/\ opts.if_not_connected /\ ~opts.reconnect /\ ~opts.wait
     /\ GenericWhileConnected(1)
     /\ \A k \in Idx("Connect") : calls[k].res = "Failed"
     /\ \A k \in 1..Len(calls) : calls[k].res # "Other"
     /\ pc = "done" /\ sigs = <<>>)
    => /\ Idx("Disconnect") = {}
       /\ iface = PreIface
       /\ outcome = "exit0"

\* C4: with neither reconnect nor if-not-connected set, once a Connect has
\* failed generically and Connected has read True, the handler re-raises the
\* Connect failure: the run ends with that failure (unless a signal ends it
\* at that very statement), with no Disconnect and no second Connect.
C4_NeitherFlagFatal ==
    (/\ ~opts.reconnect /\ ~opts.if_not_connected
     /\ \E m \in 1..2 : GenericWhileConnected(m))
    => /\ Cardinality(Idx("Connect")) = 1
       /\ Idx("Disconnect") = {}
       /\ pc \in {"L209", "done"}
       /\ pc = "done" => outcome = "DBus:Connect:Failed" \/ SignalAt("L209")

C4_Witness ==
    /\ ~opts.reconnect /\ ~opts.if_not_connected
    /\ GenericWhileConnected(1)
    /\ pc = "done" /\ outcome = "DBus:Connect:Failed"

\* C5: a Connect that failed with an error other than org.bluez.Error.Failed
\* is the last service call of the run, for every flag combination (no
\* Connect, Disconnect or property read follows it), and the run ends with
\* that error unchanged (unless a signal ends it at that very statement).
C5_OtherErrorFatal ==
    \A k \in Idx("Connect") :
        calls[k].res = "Other"
        => /\ k = Len(calls)
           /\ pc \in {"L207", "done"}
           /\ pc = "done" => outcome = "DBus:Connect:Other" \/ SignalAt("L207")

C5_Witness ==
    /\ \E k \in Idx("Connect") : calls[k].res = "Other"
    /\ opts.reconnect /\ opts.if_not_connected
    /\ pc = "done" /\ outcome = "DBus:Connect:Other"

\* C6: ConnectProfile is issued at most once; a Connect is preceded by
\* exactly one ConnectProfile (unless a signal was swallowed inside the try
\* of line 200 before the call was sent); and a ConnectProfile that reported
\* an error never ends the run: the run stands at the connect loop, about to
\* issue the first Connect, and only a signal can end it there.
C6_ProfileErrorIgnored ==
    /\ Cardinality(Idx("ConnectProfile")) <= 1
    /\ \A k \in Idx("Connect") :
          \/ \E j \in Idx("ConnectProfile") : j < k
          \/ SignalAt("L200")
    /\ (calls # <<>> /\ calls[Len(calls)].op = "ConnectProfile")
       => /\ pc \in {"L204", "L205", "done"}
          /\ n <= 1
          /\ pc = "done" => /\ outcome \in {"SystemExit", "KeyboardInterrupt"}
                            /\ SignalAt("L204") \/ SignalAt("L205")

C6_Witness ==
    /\ \E j \in Idx("ConnectProfile") :
          /\ calls[j].res = "Other"
          /\ j < Len(calls) /\ calls[j + 1].op = "Connect"
    /\ sigs = <<>>

LastCall == calls[Len(calls)]

\* C7 as the spec states it: a failure of the Unregister of line 183 is
\* ignored, so that after it the run stands at the Register of the same
\* adapter.
C7_Claim ==
    (/\ calls # <<>> /\ LastCall.op = "Unregister" /\ LastCall.at = "L183"
     /\ LastCall.res = "Other" /\ sigs = <<>>)
    => pc = "L184" /\ pending = "none"

\* C8: a Register is always preceded by a successful Unregister of the same
\* adapter, so it is never refused because the uuid is still registered,
\* also when a registration was left on the adapter before the run; and
\* right after a Register that succeeded the adapter holds the uuid.
C8_RegisterOverStale ==
    \A k \in Idx("Register") :
        /\ calls[k].res # "AlreadyExists"
        /\ ~calls[k].pre
        /\ k > 1 /\ calls[k - 1].op = "Unregister"
        /\ calls[k - 1].tgt = calls[k].tgt /\ calls[k - 1].res = "ok"
        /\ (k = Len(calls) /\ calls[k].res = "ok") => calls[k].tgt \in registered

C8_Witness ==
    \E k \in Idx("Register") :
        /\ k > 1 /\ calls[k - 1].pre /\ calls[k - 1].op = "Unregister"
        /\ calls[k].res = "ok" /\ calls[k].tgt \in registered
        /\ pc = "L185"

\* C9 as the spec states it: in a server run ended by one SIGTERM that
\* arrived inside the try block of lines 180-188, in which no service call
\* failed, every adapter whose Register succeeded has had exactly one
\* Unregister after it.
C9_Claim ==
    (/\ opts.call = "server" /\ pc = "done"
     /\ Len(sigs) = 1 /\ sigs[1].sig = "SIGTERM" /\ sigs[1].at \in ServerTry
     /\ \A k \in 1..Len(calls) : calls[k].res = "ok")
    => \A k \in Idx("Register") :
          Cardinality({j \in Idx("Unregister") :
                          j > k /\ calls[j].tgt = calls[k].tgt}) = 1

Mutating == {"Set.Powered", "Register", "Unregister", "ConnectProfile",
             "Connect", "Disconnect"}

\* C10 as the spec states it: a run that failed with BTError has issued no
\* mutating service call.
C10_Original ==
    (pc = "done" /\ outcome = "BTError")
    => \A k \in 1..Len(calls) : calls[k].op \notin Mutating

\* the test of line 57, restated
AdapterMatches(o) ==
    LET pattern == IF opts.device_all THEN <<>> ELSE opts.device
    IN /\ o.kind = "adapter"
       /\ \/ pattern = <<>>
          \/ pattern = o.addr
          \/ \E m \in 0..Len(o.path) : SubSeq(o.path, m + 1, Len(o.path)) = pattern

\* the test of lines 75-76, restated
DeviceMatches(o) ==
    /\ o.kind = "device"
    /\ o.addr = opts.remote_addr
    /\ \E m \in 0..Len(o.path) : SubSeq(o.path, 1, m) = devs[1].path

\* C10 amended: a lookup succeeds only with an object that matches, and a
\* run fails with BTError only when nothing in the directory matched.  When
\* no adapter matches, the run fails with BTError right after the directory
\* has been fetched, before any other service call.  When, in the client
\* role, no device matches, the run fails with BTError and the only mutating
\* calls issued are the Set of Powered on the selected adapter (line 135
\* runs before the device is resolved).  A run that failed with BTError has
\* issued no Register, Unregister, ConnectProfile, Connect or Disconnect.
C10_NotFoundFrame ==
    /\ \A k \in 1..Len(devs) : AdapterMatches(devs[k])
    /\ dev_remote # NoDev => DeviceMatches(dev_remote)
    /\ outcome = "BTError"
       => /\ \A k \in 1..Len(calls) :
                calls[k].op \notin Mutating \ {"Set.Powered"}
          /\ IF devs = <<>>
             THEN /\ Len(calls) = 1
                  /\ ~\E k \in 1..Len(objects) : AdapterMatches(objects[k])
             ELSE /\ opts.call = "client"
                  /\ ~\E k \in 1..Len(objects) : DeviceMatches(objects[k])
                  /\ \A k \in Idx("Set.Powered") : calls[k].tgt = devs[1].path

C10_Witness ==
    /\ outcome = "BTError" /\ opts.call = "client" /\ devs # <<>>
    /\ \E k \in Idx("Set.Powered") : calls[k].res = "ok"
    /\ \E k \in 1..Len(objects) : objects[k].kind = "device"

NoteCount(x) == Cardinality({k \in 1..Len(notes) : notes[k] = x})

\* C11: when brctl ends with a non-zero status or writes to stderr, the
\* server run returns 1 there and then: no Register and no Unregister has
\* been or is issued, and wait_iter is never called.
C11_BridgeFailReturns ==
    (brctl # NoBrctl /\ (brctl.status # 0 \/ brctl.stderr # ""))
    => /\ pc = "done" /\ outcome = "return1"
       /\ Idx("Register") = {} /\ Idx("Unregister") = {}
       /\ servers = <<>>
       /\ notes = <<>> /\ iters = 0 /\ wpos = "enter" /\ ~sd_ready

C11_Witness ==
    /\ brctl # NoBrctl /\ brctl.status = 0 /\ brctl.stderr # ""
    /\ outcome = "return1"
    /\ Idx("Set.Powered") # {}

\* C12: READY=1 is notified at most once in a run, never without --systemd,
\* and with --systemd it is the first thing wait_iter does: once the first
\* call of wait_iter has got to its sleep, READY=1 has been notified exactly
\* once, before every sleep, however many rounds follow.
C12_ReadyOnce ==
    /\ NoteCount("READY") <= 1
    /\ ~opts.systemd => NoteCount("READY") = 0
    /\ (opts.systemd /\ notes # <<>>) => notes[1] = "READY"
    /\ (opts.systemd /\ (wpos # "enter" \/ iters > 0)) => NoteCount("READY") = 1

C12_Witness ==
    /\ opts.systemd /\ iters = MaxIter /\ MaxIter > 1
    /\ NoteCount("sleep") = MaxIter
    /\ NoteCount("READY") = 1

\* C13: WATCHDOG=1 is notified only with --systemd and WATCHDOG_PID equal to
\* the id of the process, and then once per round, right after the sleep of
\* that round; with WATCHDOG_PID absent or naming another process no
\* WATCHDOG=1 is ever notified, while READY=1 still is.
C13_WatchdogOnlyForOwnPid ==
    /\ \A k \in 1..Len(notes) :
          notes[k] = "WATCHDOG"
          => /\ opts.systemd /\ wd.pid = "self"
             /\ k > 1 /\ notes[k - 1] = "sleep"
    /\ sd_wdt => NoteCount("WATCHDOG") = iters
    /\ (opts.systemd /\ wd.pid \in {"absent", "other"} /\ notes # <<>>)
       => NoteCount("READY") = 1 /\ NoteCount("WATCHDOG") = 0

C13_Witness ==
    /\ opts.systemd /\ wd.pid = "other"
    /\ iters = MaxIter
    /\ NoteCount("READY") = 1 /\ NoteCount("WATCHDOG") = 0

\* C14: in the client role without --wait, wait_iter is never called and no
\* Disconnect is issued after a Connect that succeeded; a run that finishes
\* normally leaves the device connected on the interface Connect returned.
C14_NoWaitLeavesAttached ==
    (opts.call = "client" /\ ~opts.wait)
    => /\ notes = <<>> /\ iters = 0 /\ wpos = "enter"
       /\ pc \notin {"L223", "L226", "L227"}
       /\ \A k \in Idx("Connect") :
             calls[k].res = "ok" => \A j \in Idx("Disconnect") : j < k
       /\ outcome = "exit0"
          => iface # NoIface /\ net = [connected |-> TRUE, iface |-> iface]

C14_Witness ==
    /\ opts.call = "client" /\ ~opts.wait
    /\ outcome = "exit0" /\ net.connected

\* C15 as the spec states it: when an Unregister of the cleanup (line 192)
\* fails in a server run that a signal took out of the wait loop, Unregister
\* has still been attempted on every registered adapter and the process ends
\* as it does when the cleanup succeeds.
C15_Claim ==
    (/\ opts.call = "server" /\ pc = "done"
     /\ Len(sigs) = 1 /\ sigs[1].at = "L188" /\ sigs[1].handled
     /\ \E k \in Idx("Unregister") : calls[k].at = "L192" /\ calls[k].res = "Other")
    => /\ \A m \in 1..Len(servers) :
             \E k \in Idx("Unregister") :
                calls[k].at = "L192" /\ calls[k].tgt = servers[m].path
       /\ outcome = IF sigs[1].sig = "SIGINT" THEN "exit0" ELSE "SystemExit"

\* C16 as the spec states it: with if-not-connected set and reconnect not
\* set, after a Connect that failed generically while Connected read True
\* no further Connect is issued.
C16_Claim ==
    (opts.if_not_connected /\ ~opts.reconnect /\ GenericWhileConnected(1))
    => Cardinality(Idx("Connect")) = 1

\* C17 as the spec states it: in a server run that ended without a signal
\* after a call of the registration loop failed, the adapters on which the
\* cleanup has issued Unregister are exactly those whose Register succeeded.
C17_Claim ==
    (/\ opts.call = "server" /\ pc = "done" /\ sigs = <<>>
     /\ \E k \in 1..Len(calls) :
           calls[k].at \in {"L183", "L184"} /\ calls[k].res # "ok")
    => {calls[k].tgt : k \in {j \in Idx("Unregister") : calls[j].at = "L192"}}
       = {calls[k].tgt : k \in {j \in Idx("Register") : calls[j].res = "ok"}}

\* C18 as the spec states it: in the client role, after a SIGTERM that the
\* handler of line 159 has turned into sys.exit(0), no ConnectProfile and no
\* Connect is issued.
C18_Claim ==
    opts.call = "client"
    => \A m \in 1..Len(sigs) :
          (sigs[m].sig = "SIGTERM" /\ sigs[m].handled)
          => \A k \in 1..Len(calls) :
                k > sigs[m].ncalls => calls[k].op \notin {"ConnectProfile", "Connect"}

\* C19 as the spec states it: in the client role with --wait, a process
\* that has ended after a Connect succeeded has issued a Disconnect after
\* that Connect.
C19_Claim ==
    (opts.call = "client" /\ opts.wait /\ pc = "done")
    => \A k \in Idx("Connect") :
          calls[k].res = "ok" => \E j \in Idx("Disconnect") : j > k

PastConnect == {"L221", "L223", "L226", "L227", "L231"}

====
